---- MODULE Spec2Model ----
(***************************************************************************)
(* A model of the SendToVault Obsidian plugin (src/main.ts,                *)
(* src/ui/components.ts): registration, the polling loop with its retry    *)
(* delay, note materialisation and the quota counters.                     *)
(*                                                                         *)
(* Every `await` of the source is a point where another handler of the     *)
(* single JavaScript thread may run, so each action below is one           *)
(* synchronous block of the source: from the resumption of an await (or    *)
(* the start of a handler) to the next await (or the handler's end).       *)
(* Two groups of awaits are taken as one step each: loadSettings at the    *)
(* start of onload, and the file operations inside one saveNote call.      *)
(*                                                                         *)
(* The specifications share the actions and differ in the events and      *)
(* server answers they admit: Spec (the poll loop with overlapping polls), *)
(* SpecRegister (registration and the plugin's lifecycle), SpecVault (one  *)
(* poll at a time, any note list, failing file operations), SpecPersist    *)
(* (as SpecVault, with saveSettings failing too), SpecQuota (overlapping   *)
(* polls answered without notes, any quota fields) and SpecTimer (timer,   *)
(* visibility and force-sync; SpecTimerFair adds the timer's fairness).    *)
(*                                                                         *)
(* ISO timestamps are modelled by the naturals in their Date order;        *)
(* NoDate (0) stands for the empty string / null.                          *)
(***************************************************************************)
EXTENDS Integers, Sequences, FiniteSets, Bags, TLC

(* ------------------------------ bounds -------------------------------- *)
\* poll attempts that may be in flight at once
MaxPolls == 2
\* notes in one download response
MaxNotes == 2
\* cap on the importsThisMonth counter
MaxImports == 3
\* registration requests that may be in flight at once
MaxRegs == 1

(* ------------------------- program constants -------------------------- *)
\* private retryDelay: number = 10 * 1000
InitialRetryDelay == 10 * 1000
\* private maxRetryDelay: number = 30 * 60 * 1000
maxRetryDelay == 30 * 60 * 1000
\* this.retryDelay = 2 * 60 * 1000 ("Reset retry delay on success")
SuccessRetryDelay == 2 * 60 * 1000

NoDate == 0
\* an optional response field that is undefined
Absent == -1
\* `since` when lastSyncIso is empty: new Date(Date.now() - 24h)
DayAgo == -2

DEFAULT_SETTINGS ==
    [uid |-> "", jwt |-> "", alias |-> "", lastSyncIso |-> NoDate,
     autoOpenImported |-> TRUE, quotaUsed |-> 0, quotaLimit |-> 100,
     importsThisMonth |-> 0, vaultIdentifier |-> ""]

\* settings as a previous session left them in the plugin's data file
RegisteredSettings ==
    [DEFAULT_SETTINGS EXCEPT !.uid = "v1", !.jwt = "p1", !.alias = "e1",
                             !.vaultIdentifier = "vault-0"]

\* generateVaultIdentifier(): `${vaultName}-${randomUUID}`
generateVaultIdentifier == "vault-1"

(* ------------------------- the server's answers ----------------------- *)
Note1 == [id |-> "n1", title |-> <<"a", ":", "b">>, markdown |-> "m1", created_iso |-> 2]
Note2 == [id |-> "n2", title |-> <<"a", "?", "b">>, markdown |-> "m2", created_iso |-> 1]
Note3 == [id |-> "n3", title |-> <<"c">>, markdown |-> "m3", created_iso |-> 2]
NotePool == {Note1, Note2, Note3}

NoteLists == UNION {[1..n -> NotePool] : n \in 0..MaxNotes}

DownloadResponses ==
    [notes : NoteLists, over_quota : BOOLEAN,
     quota_used : {Absent, 7}, quota_limit : {Absent, 50}]

\* RegistrationResponse of generation g with the fields in `has` present
RegResponse(g, has) ==
    [vault_id |-> IF "vault_id" \in has THEN "v" \o g ELSE "",
     passkey |-> IF "passkey" \in has THEN "p" \o g ELSE "",
     email_address |-> IF "email_address" \in has THEN "e" \o g ELSE ""]

RegFields == {"vault_id", "passkey", "email_address"}

RegistrationResponses == {RegResponse("2", has) : has \in SUBSET RegFields}

(* ------------------------------- state -------------------------------- *)
VARIABLES
    settings,         \* this.settings
    pollingInterval,  \* this.pollingInterval: 0 (undefined) or an interval handle
    intervals,        \* the window's armed intervals: handle -> period in ms
    retryDelay,       \* this.retryDelay
    hidden,           \* document.hidden
    phase,            \* "constructed", "loaded" (onload ran), "unloaded"
    polls,            \* bag of poll() invocations suspended at an await
    regs,             \* bag of registerWithService() invocations awaiting requestUrl
    firstRunModal,    \* a FirstRunModal is open
    paywall,          \* a PaywallModal has been opened
    notice,           \* text of the latest Notice
    badge,            \* the ribbon badge's number, 0 when there is no badge
    panel,            \* what the quota panel was last given by updateQuota
    files,            \* Inbox/<name>.md -> content, NoFile when there is none
    inbox,            \* the Inbox folder exists
    syncDisabled,     \* the quota panel's current "Sync Now" button is disabled
    pollLog           \* the latest outcome poll() logged: skipped, completed, failed

vars == <<settings, pollingInterval, intervals, retryDelay, hidden, phase, polls,
          regs, firstRunModal, paywall, notice, badge, panel, files, inbox, syncDisabled,
          pollLog>>

NoFile == "<none>"

(* ------------------------------ helpers ------------------------------- *)
Min(a, b) == IF a < b THEN a ELSE b

\* title.replace(/[<>:"/\\|?*]/g, '_')
IllegalChars == {"<", ">", ":", "\"", "/", "\\", "|", "?", "*"}

sanitizedTitle(title) ==
    [i \in 1..Len(title) |-> IF title[i] \in IllegalChars THEN "_" ELSE title[i]]

FileNames == {sanitizedTitle(n.title) : n \in NotePool}

\* new Date(a) > new Date(b)
DateAfter(a, b) == a > b

\* this.settings.lastSyncIso || new Date(Date.now() - 24h).toISOString()
Since(s) == IF s.lastSyncIso = NoDate THEN DayAgo ELSE s.lastSyncIso

\* the body of the download request (main.ts 283-287)
DownloadRequest(s) ==
    [vault_identifier |-> s.vaultIdentifier, passkey |-> s.jwt, since |-> Since(s)]

NoRequest == [vault_identifier |-> "", passkey |-> "", since |-> NoDate]

\* a poll() suspended at `await requestUrl(...)`
\* The last five fields are history, not state of the code: the import counter
\* and the cursor when the response arrived, the number and the latest
\* created_iso of the notes whose file saveNote has written since, and the
\* number of notes for which a file operation of saveNote failed.
\* `awaitedBy` is the caller that awaits the returned promise: "none" (the
\* timer, the visibility handler and startPolling drop it), "button" (forceSync,
\* called by the quota panel's current Sync Now button) or "oldButton"
\* (forceSync, called by a button that a render has since replaced)
FetchingPoll(awaitedBy, s) ==
    [pc |-> "fetch", awaitedBy |-> awaitedBy, req |-> DownloadRequest(s),
     notes |-> <<>>, over_quota |-> FALSE, processedCount |-> 0,
     latestNoteDate |-> NoDate,
     importsBefore |-> 0, cursorBefore |-> NoDate, materialized |-> 0,
     latestMaterialized |-> NoDate, failedNotes |-> 0]

BagAdd(b, e) == b (+) SetToBag({e})
BagRemove(b, e) == b (-) SetToBag({e})

\* notes of responses received and not yet run through saveNote
PendingNotes == LET S == BagToSet(polls)
                    Sum[T \in SUBSET S] ==
                        IF T = {} THEN 0
                        ELSE LET p == CHOOSE x \in T : TRUE
                             IN CopiesIn(p, polls) * Len(p.notes) + Sum[T \ {p}]
                IN Sum[S]

(* ------------------------------- Init --------------------------------- *)
\* QuotaPanel's own fields before any updateQuota (components.ts 105-107)
InitialPanel == [quotaUsed |-> 0, quotaLimit |-> 100, importsThisMonth |-> 0]

\* The plugin object is constructed and onload has not run.  `settings` holds
\* what loadSettings will read: the defaults of a fresh install, or the
\* credentials an earlier session stored.
InitState ==
    /\ settings \in {DEFAULT_SETTINGS, RegisteredSettings}
    /\ pollingInterval = 0
    /\ intervals = <<>>
    /\ retryDelay = InitialRetryDelay
    /\ hidden \in BOOLEAN
    /\ phase = "constructed"
    /\ polls = EmptyBag
    /\ regs = EmptyBag
    /\ firstRunModal = FALSE
    /\ paywall = FALSE
    /\ notice = "none"
    /\ badge = 0
    /\ panel = InitialPanel
    /\ files = [f \in FileNames |-> NoFile]
    /\ inbox = FALSE
    /\ syncDisabled = FALSE
    /\ pollLog = "none"

(* --------------------------- timer and poll() -------------------------- *)
\* window.clearInterval(h)
Cleared(iv, h) == [x \in DOMAIN iv \ {h} |-> iv[x]]

\* a stopPolling() that forgets window.clearInterval
StoppedKeepsTimer == intervals

\* stopPolling(): the armed intervals it leaves
StoppedIntervals == IF pollingInterval # 0 THEN Cleared(intervals, pollingInterval)
                    ELSE intervals

\* the handle window.setInterval returns: one that no armed interval has
NewHandle(iv) == CHOOSE h \in 1..(Cardinality(DOMAIN iv) + 1) :
                    /\ h \notin DOMAIN iv
                    /\ \A k \in 1..(h - 1) : k \in DOMAIN iv

\* the period startPolling gives window.setInterval
IntervalPeriod == retryDelay

\* a poll() without the test of document.hidden
PolledWhileHidden(awaitedBy) == BagAdd(polls, FetchingPoll(awaitedBy, settings))

\* poll() up to its first await: nothing when the document is hidden, else
\* the download request is issued
Polled(awaitedBy) ==
    IF hidden THEN polls ELSE BagAdd(polls, FetchingPoll(awaitedBy, settings))

\* console.log('SendToVault: Skipping poll - document hidden')
LoggedAfterCall == IF hidden THEN "skipped" ELSE pollLog

\* room for one more poll in flight: `cap` bounds the model, the code has no
\* such guard
CanPoll(cap) == hidden \/ BagCardinality(polls) < cap

\* startPolling(): its effect on the timer and the polls in flight
startPolling(cap) ==
    /\ CanPoll(cap)
    /\ polls' = Polled("none")
    /\ pollLog' = LoggedAfterCall
    /\ LET h == NewHandle(StoppedIntervals)
       IN /\ intervals' = (h :> IntervalPeriod) @@ StoppedIntervals
          /\ pollingInterval' = h

\* stopPolling()
stopPolling ==
    /\ intervals' = StoppedIntervals
    /\ pollingInterval' = 0

\* the doubling without its cap
BackoffUncapped(d) == d * 2

\* Math.min(this.retryDelay * 2, this.maxRetryDelay)
BackoffDelay(d) == Min(d * 2, maxRetryDelay)

(* ------------------------------ lifecycle ------------------------------ *)
\* !this.settings.uid || !this.settings.jwt
Unregistered(s) == s.uid = "" \/ s.jwt = ""

\* registerWithService(rotate) up to `await requestUrl`
Registering(rotate) == BagAdd(regs, [rotate |-> rotate, pc |-> "request"])

Onload(cap) ==
    /\ phase = "constructed"
    /\ phase' = "loaded"
    /\ settings' = IF settings.vaultIdentifier = ""
                   THEN [settings EXCEPT !.vaultIdentifier = generateVaultIdentifier]
                   ELSE settings
    /\ badge' = settings.importsThisMonth
    /\ IF Unregistered(settings)
       THEN /\ regs' = Registering(FALSE)
            /\ UNCHANGED <<polls, intervals, pollingInterval, pollLog>>
       ELSE /\ startPolling(cap)
            /\ UNCHANGED regs
    /\ UNCHANGED <<retryDelay, hidden, firstRunModal, paywall, notice, panel, files,
                   inbox, syncDisabled>>

Onunload ==
    /\ phase = "loaded"
    /\ phase' = "unloaded"
    /\ stopPolling
    /\ UNCHANGED <<settings, retryDelay, hidden, polls, regs, firstRunModal, paywall,
                   notice, badge, panel, files, inbox, syncDisabled, pollLog>>

\* document's visibilitychange event; the handler is registered from onload
\* to onunload and polls when the document has become visible
VisibilityChange(cap) ==
    /\ hidden' = ~hidden
    /\ IF phase = "loaded" /\ hidden
       THEN /\ BagCardinality(polls) < cap
            /\ polls' = BagAdd(polls, FetchingPoll("none", settings))
       ELSE UNCHANGED polls
    /\ UNCHANGED <<settings, pollingInterval, intervals, retryDelay, phase, regs,
                   firstRunModal, paywall, notice, badge, panel, files, inbox,
                   syncDisabled, pollLog>>

\* an armed interval fires: its callback calls poll()
TimerTick(cap) ==
    /\ \E h \in DOMAIN intervals : TRUE
    /\ CanPoll(cap)
    /\ polls' = Polled("none")
    /\ pollLog' = LoggedAfterCall
    /\ UNCHANGED <<settings, pollingInterval, intervals, retryDelay, hidden, phase,
                   regs, firstRunModal, paywall, notice, badge, panel, files, inbox,
                   syncDisabled>>

\* a forceSync that restarts the timer to poll
ForceSyncRestartsTimer(cap) ==
    /\ phase = "loaded"
    /\ ~syncDisabled
    /\ CanPoll(cap)
    /\ polls' = Polled("button")
    /\ pollLog' = LoggedAfterCall
    /\ notice' = IF hidden THEN "Sync completed!" ELSE "Syncing with SendToVault..."
    /\ syncDisabled' = ~hidden
    /\ LET h == NewHandle(StoppedIntervals)
       IN /\ intervals' = (h :> IntervalPeriod) @@ StoppedIntervals
          /\ pollingInterval' = h
    /\ UNCHANGED <<settings, retryDelay, hidden, phase,
                   regs, firstRunModal, paywall, badge, panel, files, inbox>>

\* the quota panel's "Sync Now" button: forceSync() up to `await this.poll()`.
\* With the document hidden poll() returns at once and forceSync runs on.
ForceSync(cap) ==
    /\ phase = "loaded"
    /\ ~syncDisabled
    /\ CanPoll(cap)
    /\ polls' = Polled("button")
    /\ pollLog' = LoggedAfterCall
    /\ notice' = IF hidden THEN "Sync completed!" ELSE "Syncing with SendToVault..."
    /\ syncDisabled' = ~hidden
    /\ UNCHANGED <<settings, pollingInterval, intervals, retryDelay, hidden, phase,
                   regs, firstRunModal, paywall, badge, panel, files, inbox>>

\* the settings tab's auto-open toggle
SetAutoOpen ==
    /\ phase = "loaded"
    /\ settings' = [settings EXCEPT !.autoOpenImported = ~@]
    /\ UNCHANGED <<pollingInterval, intervals, retryDelay, hidden, phase, polls, regs,
                   firstRunModal, paywall, notice, badge, panel, files, inbox,
                   syncDisabled, pollLog>>

(* ----------------------------- registration ---------------------------- *)
\* the validation without its vault_id test
ValidWithoutVaultId(data) == data.email_address # "" /\ data.passkey # ""

\* the validation of main.ts 186 passes
ValidRegistration(data) ==
    data.email_address # "" /\ data.passkey # "" /\ data.vault_id # ""

\* the settings tab's Rotate button: rotateAlias()
RotateAlias ==
    /\ phase = "loaded"
    /\ BagCardinality(regs) < MaxRegs
    /\ regs' = Registering(TRUE)
    /\ UNCHANGED <<settings, pollingInterval, intervals, retryDelay, hidden, phase,
                   polls, firstRunModal, paywall, notice, badge, panel, files, inbox,
                   syncDisabled, pollLog>>

\* requestUrl rejects (no connection, or a status of 400 and above): the catch
\* block shows a Notice
RegisterFail(r, cause) ==
    /\ r.pc = "request"
    /\ regs' = BagRemove(regs, r)
    /\ notice' = IF cause = "fetch"
                 THEN "Failed to register with SendToVault. Network connection failed."
                 ELSE "Failed to register with SendToVault. Server error"
    /\ UNCHANGED <<settings, pollingInterval, intervals, retryDelay, hidden, phase,
                   polls, firstRunModal, paywall, badge, panel, files, inbox,
                   syncDisabled, pollLog>>

\* requestUrl resolves with `data`: main.ts 183-194, up to `await saveSettings`
RegisterResponse(r, data) ==
    /\ r.pc = "request"
    /\ IF ValidRegistration(data)
       THEN /\ settings' = [settings EXCEPT !.uid = data.vault_id,
                                            !.jwt = data.passkey,
                                            !.alias = data.email_address]
            /\ regs' = BagAdd(BagRemove(regs, r), [r EXCEPT !.pc = "save"])
            /\ UNCHANGED notice
       ELSE /\ regs' = BagRemove(regs, r)
            /\ notice' = "Failed to register with SendToVault. Server returned invalid data."
            /\ UNCHANGED settings
    /\ UNCHANGED <<pollingInterval, intervals, retryDelay, hidden, phase, polls,
                   firstRunModal, paywall, badge, panel, files, inbox, syncDisabled, pollLog>>

\* saveSettings resolves (ok) or rejects: main.ts 196-205, or the catch block
RegisterSaved(r, ok) ==
    /\ r.pc = "save"
    /\ regs' = BagRemove(regs, r)
    /\ firstRunModal' = IF ok /\ ~r.rotate THEN TRUE ELSE firstRunModal
    /\ notice' = IF ~ok THEN "Failed to register with SendToVault. Error"
                 ELSE IF r.rotate THEN "Email alias rotated successfully!"
                 ELSE notice
    /\ UNCHANGED <<settings, pollingInterval, intervals, retryDelay, hidden, phase,
                   polls, paywall, badge, panel, files, inbox, syncDisabled, pollLog>>

\* the first-run modal's Done button: close(), then onComplete = startPolling
FirstRunDone(cap) ==
    /\ firstRunModal
    /\ firstRunModal' = FALSE
    /\ startPolling(cap)
    /\ UNCHANGED <<settings, retryDelay, hidden, phase, regs, paywall, notice, badge,
                   panel, files, inbox, syncDisabled>>

\* the modal is closed without Done (Esc, the close button): no onComplete
FirstRunDismiss ==
    /\ firstRunModal
    /\ firstRunModal' = FALSE
    /\ UNCHANGED <<settings, pollingInterval, intervals, retryDelay, hidden, phase,
                   polls, regs, paywall, notice, badge, panel, files, inbox,
                   syncDisabled, pollLog>>

(* -------------------------------- poll() ------------------------------- *)
\* forceSync() resumes when the poll it awaits returns: poll() never throws,
\* so the try branch runs: Notice('Sync completed!')
NoticeAfterPoll(p, n) == IF p.awaitedBy # "none" THEN "Sync completed!" ELSE n

\* QuotaPanel.render's finally: the button that was clicked is enabled again;
\* it is the panel's current button unless a render has replaced it
ButtonAfterPoll(p, d) == IF p.awaitedBy = "button" THEN FALSE ELSE d

\* the catch block of poll(): main.ts 391-404
PollCatch(p, error) ==
    /\ pollLog' = "failed: " \o error
    /\ retryDelay' = BackoffDelay(retryDelay)
    /\ notice' = NoticeAfterPoll(p, notice)
    /\ syncDisabled' = ButtonAfterPoll(p, syncDisabled)

\* main.ts 369-373: the cursor after the batch
CursorAfterBatch(s, p) ==
    IF p.processedCount > 0 /\ p.latestNoteDate # NoDate
    THEN [s EXCEPT !.lastSyncIso = p.latestNoteDate]
    ELSE s

\* data.notes && Array.isArray(data.notes)
NotesOf(data) == data.notes

\* the quota taken wholesale from the response, absent fields included
QuotaWholesale(s, data) ==
    [s EXCEPT !.quotaUsed = data.quota_used, !.quotaLimit = data.quota_limit]

\* main.ts 323-331
QuotaAfterResponse(s, data) ==
    [s EXCEPT !.quotaUsed = IF data.quota_used # Absent THEN data.quota_used ELSE @,
              !.quotaLimit = IF data.quota_limit # Absent THEN data.quota_limit ELSE @]

\* a catch block that also forgets the cursor, so that the next poll refetches
PollFetchFailForgetsCursor(p) ==
    /\ p.pc = "fetch"
    /\ polls' = BagRemove(polls, p)
    /\ PollCatch(p, "request")
    /\ settings' = [settings EXCEPT !.lastSyncIso = NoDate]
    /\ UNCHANGED <<pollingInterval, intervals, hidden, phase, regs,
                   firstRunModal, paywall, badge, panel, files, inbox>>

\* a catch block that gives up polling
PollFetchFailStopsTimer(p) ==
    /\ p.pc = "fetch"
    /\ polls' = BagRemove(polls, p)
    /\ PollCatch(p, "request")
    /\ stopPolling
    /\ UNCHANGED <<settings, hidden, phase, regs,
                   firstRunModal, paywall, badge, panel, files, inbox>>

\* requestUrl rejects, or response.json cannot be parsed or is no object
PollFetchFail(p) ==
    /\ p.pc = "fetch"
    /\ polls' = BagRemove(polls, p)
    /\ PollCatch(p, "request")
    /\ UNCHANGED <<settings, pollingInterval, intervals, hidden, phase, regs,
                   firstRunModal, paywall, badge, panel, files, inbox>>

\* requestUrl resolves with `data`: main.ts 290-338; with no note to process
\* the block runs on to `await this.saveSettings()` (main.ts 375).  The first
\* conjunct after the pc test keeps importsThisMonth within MaxImports.
PollResponse(p, data) ==
    /\ p.pc = "fetch"
    /\ settings.importsThisMonth + PendingNotes + Len(NotesOf(data)) <= MaxImports
    /\ LET q == [p EXCEPT !.req = NoRequest, !.notes = NotesOf(data),
                          !.over_quota = data.over_quota,
                          !.importsBefore = settings.importsThisMonth,
                          !.cursorBefore = settings.lastSyncIso,
                          !.pc = IF NotesOf(data) = <<>> THEN "save" ELSE "note"]
       IN /\ polls' = BagAdd(BagRemove(polls, p), q)
          /\ settings' = QuotaAfterResponse(settings, data)
    /\ UNCHANGED <<pollingInterval, intervals, retryDelay, hidden, phase, regs,
                   firstRunModal, paywall, notice, badge, panel, files, inbox,
                   syncDisabled, pollLog>>

\* the ways saveNote's file operations can end
IoOutcomes == {"ok", "folderFail", "writeFail", "openFail"}

\* saveNote(note) throws: only createFolder is outside its try block
SaveNoteThrows(io) == io = "folderFail"

\* vault.modify or vault.create has written the note's file
FileWritten(io) == io \in {"ok", "openFail"}

\* a saveNote that only modifies: no file is created at a free path
FilesAfterSaveSkipsCreate(fs, note, io) ==
    IF FileWritten(io) /\ fs[sanitizedTitle(note.title)] # NoFile
    THEN [fs EXCEPT ![sanitizedTitle(note.title)] = note.markdown]
    ELSE fs

\* a saveNote that appends to the file it finds
FilesAfterSaveAppends(fs, note, io) ==
    IF FileWritten(io)
    THEN [fs EXCEPT ![sanitizedTitle(note.title)] =
                        IF @ = NoFile THEN note.markdown ELSE @ \o note.markdown]
    ELSE fs

\* a saveNote that leaves the file it finds as it is: the first note wins
FilesAfterSaveKeepsFirst(fs, note, io) ==
    IF FileWritten(io)
    THEN [fs EXCEPT ![sanitizedTitle(note.title)] =
                        IF @ = NoFile THEN note.markdown ELSE @]
    ELSE fs

\* the file saveNote leaves at the note's path
FilesAfterSave(fs, note, io) ==
    IF FileWritten(io)
    THEN [fs EXCEPT ![sanitizedTitle(note.title)] = note.markdown]
    ELSE fs

\* main.ts 353-355
LatestAfter(latest, note) ==
    IF latest = NoDate \/ DateAfter(note.created_iso, latest)
    THEN note.created_iso ELSE latest

\* a batch that a failing note aborts: the poll ends in the catch block
PollNoteAborts(p, io) ==
    /\ p.pc = "note"
    /\ LET note == Head(p.notes)
           exists == files[sanitizedTitle(note.title)] # NoFile
           w == IF FileWritten(io)
                THEN [p EXCEPT !.materialized = @ + 1,
                               !.latestMaterialized =
                                   IF note.created_iso > @ THEN note.created_iso ELSE @]
                ELSE p
           h == IF io = "ok" THEN w ELSE [w EXCEPT !.failedNotes = @ + 1]
           q == IF SaveNoteThrows(io)
                THEN [h EXCEPT !.notes = Tail(@)]
                ELSE [h EXCEPT !.notes = Tail(@),
                               !.processedCount = @ + 1,
                               !.latestNoteDate = LatestAfter(@, note)]
           s == IF SaveNoteThrows(io) THEN settings
                ELSE [settings EXCEPT !.importsThisMonth = @ + 1]
       IN /\ io = "folderFail" => ~inbox
          /\ io = "openFail" => ~exists /\ settings.autoOpenImported
          /\ inbox' = (inbox \/ io # "folderFail")
          /\ files' = FilesAfterSave(files, note, io)
          /\ notice' = IF io = "ok" THEN "Imported"
                       ELSE IF io = "folderFail" THEN notice
                       ELSE "Failed to save note"
          /\ IF io # "ok"
             THEN /\ settings' = s
                  /\ polls' = BagRemove(polls, p)
                  /\ pollLog' = "failed: note"
                  /\ retryDelay' = BackoffDelay(retryDelay)
             ELSE /\ IF Tail(p.notes) = <<>>
                     THEN /\ settings' = CursorAfterBatch(s, q)
                          /\ polls' = BagAdd(BagRemove(polls, p), [q EXCEPT !.pc = "save"])
                     ELSE /\ settings' = s
                          /\ polls' = BagAdd(BagRemove(polls, p), q)
                  /\ UNCHANGED <<retryDelay, pollLog>>
    /\ UNCHANGED <<pollingInterval, intervals, hidden, phase, regs,
                   firstRunModal, paywall, badge, panel, syncDisabled>>

\* `await this.saveNote(note)` ends for the first note left, then main.ts
\* 349-362, and either the next saveNote starts or the batch ends (369-375)
PollNote(p, io) ==
    /\ p.pc = "note"
    /\ LET note == Head(p.notes)
           exists == files[sanitizedTitle(note.title)] # NoFile
           w == IF FileWritten(io)
                THEN [p EXCEPT !.materialized = @ + 1,
                               !.latestMaterialized =
                                   IF note.created_iso > @ THEN note.created_iso ELSE @]
                ELSE p
           h == IF io = "ok" THEN w ELSE [w EXCEPT !.failedNotes = @ + 1]
           q == IF SaveNoteThrows(io)
                THEN [h EXCEPT !.notes = Tail(@)]
                ELSE [h EXCEPT !.notes = Tail(@),
                               !.processedCount = @ + 1,
                               !.latestNoteDate = LatestAfter(@, note)]
           s == IF SaveNoteThrows(io) THEN settings
                ELSE [settings EXCEPT !.importsThisMonth = @ + 1]
       IN /\ io = "folderFail" => ~inbox
          /\ io = "openFail" => ~exists /\ settings.autoOpenImported
          /\ inbox' = (inbox \/ io # "folderFail")
          /\ files' = FilesAfterSave(files, note, io)
          /\ notice' = IF io = "ok" THEN "Imported"
                       ELSE IF io = "folderFail" THEN notice
                       ELSE "Failed to save note"
          /\ IF Tail(p.notes) = <<>>
             THEN /\ settings' = CursorAfterBatch(s, q)
                  /\ polls' = BagAdd(BagRemove(polls, p), [q EXCEPT !.pc = "save"])
             ELSE /\ settings' = s
                  /\ polls' = BagAdd(BagRemove(polls, p), q)
    /\ UNCHANGED <<pollingInterval, intervals, retryDelay, hidden, phase, regs,
                   firstRunModal, paywall, badge, panel, syncDisabled, pollLog>>

\* QuotaPanel.render() replaces the Sync Now button: the forceSync calls in
\* flight were made by a button that is no longer the panel's
Rendered(b) ==
    LET S == BagToSet(b)
        Old(x) == IF x.awaitedBy = "button"
                  THEN [x EXCEPT !.awaitedBy = "oldButton"] ELSE x
    IN [y \in {Old(x) : x \in S} |->
           LET src == {x \in S : Old(x) = y}
               Cnt[T \in SUBSET src] ==
                   IF T = {} THEN 0
                   ELSE LET x == CHOOSE z \in T : TRUE
                        IN b[x] + Cnt[T \ {x}]
           IN Cnt[src]]

\* a poll that ends without updating the ribbon badge
PollSavedStaleBadge(p) ==
    /\ p.pc = "save"
    /\ polls' = IF phase = "loaded" THEN Rendered(BagRemove(polls, p))
                ELSE BagRemove(polls, p)
    /\ panel' = IF phase = "loaded"
                THEN [quotaUsed |-> settings.quotaUsed,
                      quotaLimit |-> settings.quotaLimit,
                      importsThisMonth |-> settings.importsThisMonth]
                ELSE panel
    /\ paywall' = (paywall \/ p.over_quota)
    /\ retryDelay' = SuccessRetryDelay
    /\ pollLog' = "completed"
    /\ notice' = NoticeAfterPoll(p, notice)
    /\ syncDisabled' = IF phase = "loaded" THEN FALSE
                       ELSE ButtonAfterPoll(p, syncDisabled)
    /\ UNCHANGED <<settings, pollingInterval, intervals, hidden, phase, regs,
                   firstRunModal, files, inbox, badge>>

\* a poll that stops the timer when the response says over quota
PollSavedHaltsOverQuota(p) ==
    /\ p.pc = "save"
    /\ polls' = IF phase = "loaded" THEN Rendered(BagRemove(polls, p))
                ELSE BagRemove(polls, p)
    /\ badge' = settings.importsThisMonth
    /\ panel' = IF phase = "loaded"
                THEN [quotaUsed |-> settings.quotaUsed,
                      quotaLimit |-> settings.quotaLimit,
                      importsThisMonth |-> settings.importsThisMonth]
                ELSE panel
    /\ paywall' = (paywall \/ p.over_quota)
    /\ retryDelay' = SuccessRetryDelay
    /\ pollLog' = "completed"
    /\ notice' = NoticeAfterPoll(p, notice)
    /\ syncDisabled' = IF phase = "loaded" THEN FALSE
                       ELSE ButtonAfterPoll(p, syncDisabled)
    /\ IF p.over_quota THEN stopPolling ELSE UNCHANGED <<pollingInterval, intervals>>
    /\ UNCHANGED <<settings, hidden, phase, regs, firstRunModal, files, inbox>>

\* `await this.saveSettings()` resolves: main.ts 376-389
PollSaved(p) ==
    /\ p.pc = "save"
    /\ polls' = IF phase = "loaded" THEN Rendered(BagRemove(polls, p))
                ELSE BagRemove(polls, p)
    /\ badge' = settings.importsThisMonth
    /\ panel' = IF phase = "loaded"
                THEN [quotaUsed |-> settings.quotaUsed,
                      quotaLimit |-> settings.quotaLimit,
                      importsThisMonth |-> settings.importsThisMonth]
                ELSE panel
    /\ paywall' = (paywall \/ p.over_quota)
    /\ retryDelay' = SuccessRetryDelay
    /\ pollLog' = "completed"
    /\ notice' = NoticeAfterPoll(p, notice)
    /\ syncDisabled' = IF phase = "loaded" THEN FALSE
                       ELSE ButtonAfterPoll(p, syncDisabled)
    /\ UNCHANGED <<settings, pollingInterval, intervals, hidden, phase, regs,
                   firstRunModal, files, inbox>>

\* `await this.saveSettings()` rejects: the catch block
PollSaveFail(p) ==
    /\ p.pc = "save"
    /\ polls' = BagRemove(polls, p)
    /\ PollCatch(p, "save")
    /\ UNCHANGED <<settings, pollingInterval, intervals, hidden, phase, regs,
                   firstRunModal, paywall, badge, panel, files, inbox>>

(* ------------------------- the poll loop: Spec ------------------------- *)
\* What the server answers in Spec: nothing new, or one note with both quota
\* fields and the over-quota flag.
EmptyResponse ==
    [notes |-> <<>>, over_quota |-> FALSE, quota_used |-> Absent, quota_limit |-> Absent]

LoopResponses ==
    {EmptyResponse,
     [notes |-> <<Note1>>, over_quota |-> TRUE, quota_used |-> 7, quota_limit |-> 50]}

\* A registered installation is loaded and polls: timer ticks, visibility
\* changes and force-syncs in any order, up to MaxPolls polls in flight, each
\* fetch failing or answered.
Init ==
    /\ InitState
    /\ settings = RegisteredSettings

Next ==
    \/ Onload(MaxPolls)
    \/ VisibilityChange(MaxPolls)
    \/ TimerTick(MaxPolls)
    \/ ForceSync(MaxPolls)
    \/ \E p \in BagToSet(polls) : PollFetchFail(p)
    \/ \E p \in BagToSet(polls), data \in LoopResponses : PollResponse(p, data)
    \/ \E p \in BagToSet(polls) : PollNote(p, "ok")
    \/ \E p \in BagToSet(polls) : PollSaved(p)
    \/ \E p \in BagToSet(polls) : PollSaveFail(p)

Spec == Init /\ [][Next]_vars

(* ---------------------- registration: SpecRegister -------------------- *)
\* A fresh or a registered installation is loaded: registration, rotation,
\* the first-run modal, teardown, and polls that find nothing new.
NextRegister ==
    \/ Onload(MaxPolls)
    \/ Onunload
    \/ VisibilityChange(MaxPolls)
    \/ TimerTick(MaxPolls)
    \/ ForceSync(MaxPolls)
    \/ RotateAlias
    \/ \E r \in BagToSet(regs), cause \in {"fetch", "status"} : RegisterFail(r, cause)
    \/ \E r \in BagToSet(regs), data \in RegistrationResponses : RegisterResponse(r, data)
    \/ \E r \in BagToSet(regs), ok \in BOOLEAN : RegisterSaved(r, ok)
    \/ FirstRunDone(MaxPolls)
    \/ FirstRunDismiss
    \/ \E p \in BagToSet(polls) : PollResponse(p, EmptyResponse)
    \/ \E p \in BagToSet(polls) : PollSaved(p)

SpecRegister == InitState /\ [][NextRegister]_vars

(* ------------------------ materialisation: SpecVault ------------------- *)
\* polls in flight at once in SpecVault
MaxVaultPolls == 1

\* What the server answers in SpecVault: any list of notes, no quota fields.
NoteResponses ==
    [notes : NoteLists, over_quota : {FALSE}, quota_used : {Absent}, quota_limit : {Absent}]

\* the document is visible and stays so
InitVisible ==
    /\ Init
    /\ hidden = FALSE

\* A registered installation polls, one poll at a time; the server answers
\* with any list of notes, and file operations may fail.
NextVault ==
    \/ Onload(MaxVaultPolls)
    \/ TimerTick(MaxVaultPolls)
    \/ SetAutoOpen
    \/ \E p \in BagToSet(polls), data \in NoteResponses : PollResponse(p, data)
    \/ \E p \in BagToSet(polls), io \in IoOutcomes : PollNote(p, io)
    \/ \E p \in BagToSet(polls) : PollSaved(p)

SpecVault == InitVisible /\ [][NextVault]_vars

(* -------------------------- persistence: SpecPersist ------------------- *)
\* What the server answers in SpecPersist: Note1 any number of times,
\* quota_used, and the over-quota flag set or not.
PersistResponses ==
    {[EmptyResponse EXCEPT !.notes = l, !.over_quota = o, !.quota_used = 7] :
        l \in {x \in NoteLists : \A i \in DOMAIN x : x[i] = Note1}, o \in BOOLEAN}

\* A registered installation polls, one poll at a time; file operations may
\* fail, and so may saving the settings.
NextPersist ==
    \/ Onload(MaxVaultPolls)
    \/ TimerTick(MaxVaultPolls)
    \/ \E p \in BagToSet(polls), data \in PersistResponses : PollResponse(p, data)
    \/ \E p \in BagToSet(polls), io \in IoOutcomes : PollNote(p, io)
    \/ \E p \in BagToSet(polls) : PollSaved(p)
    \/ \E p \in BagToSet(polls) : PollSaveFail(p)

SpecPersist == InitVisible /\ [][NextPersist]_vars

(* ----------------------------- quota: SpecQuota ------------------------ *)
\* What the server answers in SpecQuota: no note, the over-quota flag set or
\* not, and each quota field absent or present.
QuotaResponses ==
    [notes : {<<>>}, over_quota : BOOLEAN,
     quota_used : {Absent, 7, 9}, quota_limit : {Absent, 50}]

\* A registered installation polls, up to MaxPolls polls in flight; each fetch
\* fails or is answered without notes.
NextQuota ==
    \/ Onload(MaxPolls)
    \/ VisibilityChange(MaxPolls)
    \/ TimerTick(MaxPolls)
    \/ \E p \in BagToSet(polls) : PollFetchFail(p)
    \/ \E p \in BagToSet(polls), data \in QuotaResponses : PollResponse(p, data)
    \/ \E p \in BagToSet(polls) : PollSaved(p)

SpecQuota == Init /\ [][NextQuota]_vars

(* ------------------------- scheduling: SpecTimer ----------------------- *)
\* What the server answers in SpecTimer: nothing new, with or without a
\* quota_used field.
TimerResponses == {EmptyResponse, [EmptyResponse EXCEPT !.quota_used = 7]}

\* A registered installation is loaded; the timer fires, the document is
\* hidden and shown, the user force-syncs, and each poll fails at its fetch,
\* or is answered and then saved or not.
NextTimer ==
    \/ Onload(MaxPolls)
    \/ VisibilityChange(MaxPolls)
    \/ TimerTick(MaxPolls)
    \/ ForceSync(MaxPolls)
    \/ \E p \in BagToSet(polls) : PollFetchFail(p)
    \/ \E p \in BagToSet(polls), data \in TimerResponses : PollResponse(p, data)
    \/ \E p \in BagToSet(polls) : PollSaved(p)
    \/ \E p \in BagToSet(polls) : PollSaveFail(p)

SpecTimer == Init /\ [][NextTimer]_vars

\* window.setInterval keeps calling its callback: an armed interval fires
\* again and again
SpecTimerFair == Init /\ [][NextTimer]_vars /\ WF_vars(TimerTick(MaxPolls))

(* ------------------------ properties of the poll loop ------------------ *)
\* the poll p, awaiting its download, ends in this step without an answer:
\* its fetch failed in transport or its response could not be parsed
FetchFails(p) == p.pc = "fetch" /\ polls' = BagRemove(polls, p)

\* the poll p ends in this step with its state saved
Succeeds(p) == p.pc = "save" /\ polls' = BagRemove(polls, p) /\ pollLog' = "completed"

\* the poll p ends in this step in the catch block
Fails(p) == polls' = BagRemove(polls, p) /\ pollLog' \in {"failed: request", "failed: save"}

\* C3: at most one poll attempt is in flight at any time.
C3_OnePollInFlight == BagCardinality(polls) <= 1

\* C4: after a failed poll the retry delay is min(2 x previous, maxDelay), and
\* after a successful poll it is the delay the engine starts with.
C4_BackoffStep ==
    [][\A p \in BagToSet(polls) :
          /\ Fails(p) => retryDelay' = Min(2 * retryDelay, maxRetryDelay)
          /\ Succeeds(p) => retryDelay' = InitialRetryDelay]_vars

\* C5: the retry delay always lies between the delay the engine starts with
\* and the maximum delay.
C5_DelayInRange == InitialRetryDelay <= retryDelay /\ retryDelay <= maxRetryDelay

\* C5 witness: the delay has reached the cap although a poll had succeeded
\* and imported a note, and another poll was skipped last.
C5_Witness ==
    /\ retryDelay = maxRetryDelay
    /\ settings.importsThisMonth > 0
    /\ pollLog = "skipped"

\* C6: once a poll attempt has finished, the armed timer's period is the
\* retry delay that attempt produced.
C6_TimerFollowsDelay ==
    (pollingInterval # 0 /\ polls = EmptyBag /\ pollLog \notin {"none", "skipped"})
        => intervals[pollingInterval] = retryDelay

\* C7: a poll whose fetch fails (transport or parse) leaves lastSyncIso,
\* quotaUsed, quotaLimit and importsThisMonth as they were and only doubles
\* the retry delay.
C7_FailedFetchFrame ==
    [][\A p \in BagToSet(polls) :
          FetchFails(p) =>
              /\ settings'.lastSyncIso = settings.lastSyncIso
              /\ settings'.quotaUsed = settings.quotaUsed
              /\ settings'.quotaLimit = settings.quotaLimit
              /\ settings'.importsThisMonth = settings.importsThisMonth
              /\ retryDelay' = Min(2 * retryDelay, maxRetryDelay)]_vars

\* C7 witness: a fetch has just failed, after an earlier poll had moved the
\* cursor, the quota and the import counter off their defaults.
C7_Witness ==
    /\ pollLog = "failed: request"
    /\ retryDelay = 2 * SuccessRetryDelay
    /\ settings.lastSyncIso # NoDate
    /\ settings.quotaUsed # DEFAULT_SETTINGS.quotaUsed
    /\ settings.quotaLimit # DEFAULT_SETTINGS.quotaLimit
    /\ settings.importsThisMonth > 0

\* C8: forceSync never announces completion of a sync whose poll failed.
C8_FailureReported ==
    [][\A p \in BagToSet(polls) :
          (p.awaitedBy # "none" /\ Fails(p)) => notice' # "Sync completed!"]_vars

(* ------------------------ properties of the cursor --------------------- *)
\* C1: the stored cursor lastSyncIso never moves to an earlier timestamp.
C1_CursorMonotonic == [][settings'.lastSyncIso >= settings.lastSyncIso]_vars

\* C2: when a poll has run its N notes through saveNote and K of them were
\* written, importsThisMonth has grown by exactly K and the cursor is the
\* latest created_iso of those K, or what it was when K = 0.
C2_CountsMaterialized ==
    \A p \in BagToSet(polls) :
        p.pc = "save" =>
            /\ settings.importsThisMonth = p.importsBefore + p.materialized
            /\ settings.lastSyncIso = IF p.materialized = 0 THEN p.cursorBefore
                                      ELSE p.latestMaterialized

(* ------------------------ properties of registration ------------------- *)
\* the response lacks one of vault_id, passkey, email_address
LacksField(data) == data.vault_id = "" \/ data.passkey = "" \/ data.email_address = ""

InvalidDataNotice == "Failed to register with SendToVault. Server returned invalid data."

\* C9: a registration whose response lacks vault_id, passkey or
\* email_address ends with the invalid-data notice, leaves uid, jwt and alias
\* as they were, and starts neither a poll nor a timer nor the first-run modal.
C9_InvalidRegistration ==
    [][\A r \in BagToSet(regs), data \in RegistrationResponses :
          (LacksField(data) /\ RegisterResponse(r, data)) =>
              /\ settings'.uid = settings.uid
              /\ settings'.jwt = settings.jwt
              /\ settings'.alias = settings.alias
              /\ notice' = InvalidDataNotice
              /\ regs' = BagRemove(regs, r)
              /\ polls' = polls
              /\ intervals' = intervals
              /\ pollingInterval' = pollingInterval
              /\ firstRunModal' = firstRunModal]_vars

\* C9 witness: a rotation of a registered installation was answered with
\* invalid data, and the credentials stored before are still there.
C9_Witness ==
    /\ notice = InvalidDataNotice
    /\ regs = EmptyBag
    /\ settings.uid = RegisteredSettings.uid
    /\ settings.jwt = RegisteredSettings.jwt
    /\ settings.alias = RegisteredSettings.alias

\* C10: every download request in flight carries the vault identifier and a
\* non-empty secret, and none is in flight while uid or jwt is empty.
C10_FetchHasCredentials ==
    \A p \in BagToSet(polls) :
        p.pc = "fetch" =>
            /\ p.req.vault_identifier = settings.vaultIdentifier
            /\ p.req.passkey # ""
            /\ ~Unregistered(settings)

(* ------------------------- quota and over-quota ------------------------ *)
\* the poll p, its state handed to saveSettings, ends in this step
Ends(p) ==
    /\ p.pc = "save"
    /\ polls' = BagRemove(polls, p) \/ polls' = Rendered(BagRemove(polls, p))

\* the quota fields after a response: each one the response's when present
QuotaFollows(data) ==
    /\ settings'.quotaUsed =
           IF data.quota_used = Absent THEN settings.quotaUsed ELSE data.quota_used
    /\ settings'.quotaLimit =
           IF data.quota_limit = Absent THEN settings.quotaLimit ELSE data.quota_limit

C15_QuotaFollowsResponses ==
    [][/\ \A p \in BagToSet(polls), data \in QuotaResponses :
             PollResponse(p, data) => QuotaFollows(data)
       /\ (\A p \in BagToSet(polls), data \in QuotaResponses : ~PollResponse(p, data))
             => /\ settings'.quotaUsed = settings.quotaUsed
                /\ settings'.quotaLimit = settings.quotaLimit]_vars

\* a poll that took quota_used 7 alone has ended; later responses brought
\* quota_limit 50 and then quota_used 9
C15_Witness ==
    /\ panel.quotaUsed = 7 /\ panel.quotaLimit = DEFAULT_SETTINGS.quotaLimit
    /\ settings.quotaUsed = 9 /\ settings.quotaLimit = 50

(* ---------------------------- materialisation -------------------------- *)
\* saveNote for the first note left of poll p ends in this step
Materializes(p) ==
    /\ p.pc = "note"
    /\ \E q \in BagToSet(polls') :
          /\ q.notes = Tail(p.notes)
          /\ polls' = BagAdd(BagRemove(polls, p), q)

\* Inbox/<sanitized title>.md of the first note left of poll p
NotePath(p) == sanitizedTitle(Head(p.notes).title)

\* the files there are
Existing(fs) == {f \in DOMAIN fs : fs[f] # NoFile}

\* C12: materializing a note whose path Inbox/<sanitized title>.md is free
\* creates exactly one new file, at that path, holding the note's markdown,
\* and changes no other file; when a file operation fails the only other
\* outcome is that nothing is created.
C12_CreatesOneFile ==
    [][\A p \in BagToSet(polls) :
          (Materializes(p) /\ files[NotePath(p)] = NoFile) =>
              /\ \A f \in DOMAIN files \ {NotePath(p)} : files'[f] = files[f]
              /\ files'[NotePath(p)] \in {NoFile, Head(p.notes).markdown}
              /\ notice' = "Imported" =>
                     /\ files'[NotePath(p)] = Head(p.notes).markdown
                     /\ Existing(files') = Existing(files) \cup {NotePath(p)}
                     /\ Cardinality(Existing(files')) = Cardinality(Existing(files)) + 1]_vars

\* Note3 has been created at its free path next to the file of another note,
\* which kept its content
C12_Witness ==
    /\ notice = "Imported"
    /\ files[sanitizedTitle(Note3.title)] = Note3.markdown
    /\ files[sanitizedTitle(Note1.title)] = Note1.markdown
    /\ \E p \in BagToSet(polls) : p.pc = "save" /\ p.materialized = 1

\* C13: materializing a note whose path holds a file overwrites that file with
\* the note's markdown and creates no file, and doing it twice in a row gives
\* the files and contents that doing it once gives.
C13_OverwritesInPlace ==
    [][/\ \A p \in BagToSet(polls) :
             (Materializes(p) /\ files[NotePath(p)] # NoFile) =>
                 /\ \A f \in DOMAIN files \ {NotePath(p)} : files'[f] = files[f]
                 /\ files'[NotePath(p)] \in {files[NotePath(p)], Head(p.notes).markdown}
                 /\ Existing(files') = Existing(files)
                 /\ notice' = "Imported" => files'[NotePath(p)] = Head(p.notes).markdown
                 /\ (notice' = "Imported" /\ files[NotePath(p)] = Head(p.notes).markdown)
                        => files' = files
       /\ \A n \in NotePool :
             FilesAfterSave(FilesAfterSave(files, n, "ok"), n, "ok")
                 = FilesAfterSave(files, n, "ok")]_vars

\* Note2 has overwritten the file Note1 had created, within one batch
C13_Witness ==
    /\ notice = "Imported"
    /\ files[sanitizedTitle(Note2.title)] = Note2.markdown
    /\ sanitizedTitle(Note2.title) = sanitizedTitle(Note1.title)
    /\ \E p \in BagToSet(polls) : p.pc = "save" /\ p.materialized = 2
    /\ Cardinality(Existing(files)) = 1

C14_NoTimerAfterUnload ==
    phase = "unloaded" => (pollingInterval = 0 /\ intervals = <<>>)

(* ------------------------- hidden document, timer ---------------------- *)
\* the download requests in flight
Requests(b) == BagCardinality([q \in {x \in BagToSet(b) : x.pc = "fetch"} |-> b[q]])

\* C16: poll() called while the document is hidden does nothing: no request is
\* issued, and cursor, quota, importsThisMonth, retry delay and timer are as
\* before; the call is logged as skipped, not as a failure.
C16_HiddenPollNoOp ==
    [][hidden =>
          /\ hidden' => Requests(polls') <= Requests(polls)
          /\ (TimerTick(MaxPolls) \/ ForceSync(MaxPolls)) =>
                 /\ pollLog' = "skipped"
                 /\ UNCHANGED <<polls, settings, retryDelay, pollingInterval, intervals,
                                files, badge, panel, paywall>>
          /\ Onload(MaxPolls) =>
                 /\ pollLog' = "skipped"
                 /\ UNCHANGED <<polls, retryDelay, files, panel, paywall>>
                 /\ settings' = settings]_vars

\* the timer has fired with the document hidden, after a poll that brought
\* quota_used 7 and a poll that failed: nothing in flight, quota, delay and
\* timer as those polls left them
C16_Witness ==
    /\ hidden /\ pollLog = "skipped" /\ polls = EmptyBag
    /\ settings.quotaUsed = 7
    /\ retryDelay = BackoffDelay(SuccessRetryDelay)
    /\ pollingInterval \in DOMAIN intervals

\* C19: a poll started by the document becoming visible or by a force-sync
\* leaves the timer alone: pollingInterval keeps its handle and the armed
\* interval its period; and while the plugin is loaded and the document
\* visible such a poll can be started also when polls are in flight.
C19_OutOfBandKeepsTimer ==
    [][/\ (VisibilityChange(MaxPolls) \/ ForceSync(MaxPolls)) =>
             UNCHANGED <<pollingInterval, intervals>>
       /\ (phase = "loaded" /\ ~hidden /\ ~syncDisabled
              /\ BagCardinality(polls) < MaxPolls) =>
             ENABLED (ForceSync(MaxPolls) /\ Requests(polls') = Requests(polls) + 1)
       /\ (phase = "loaded" /\ hidden /\ BagCardinality(polls) < MaxPolls) =>
             ENABLED (VisibilityChange(MaxPolls)
                         /\ Requests(polls') = Requests(polls) + 1)]_vars

\* a force-sync poll is in flight next to another poll, after the retry delay
\* has changed: the interval armed at load is still the one armed
C19_Witness ==
    /\ \E p \in BagToSet(polls) : p.awaitedBy = "button"
    /\ BagCardinality(polls) = 2
    /\ pollingInterval \in DOMAIN intervals
    /\ DOMAIN intervals = {pollingInterval}
    /\ intervals[pollingInterval] = InitialRetryDelay
    /\ retryDelay = SuccessRetryDelay

\* the latest poll to end has failed and no poll is in flight
LoopIdleAfterFailure ==
    /\ pollLog \in {"failed: request", "failed: save"}
    /\ polls = EmptyBag
    /\ ~hidden

\* C20: a failed poll leaves the timer armed as it was and shows no error
\* Notice, however many polls have failed before; and when the latest poll
\* has failed and none is in flight, a new download request is issued unless
\* the document is hidden first.
C20_FailureKeepsLoop ==
    /\ [][\A p \in BagToSet(polls) :
             Fails(p) =>
                 /\ UNCHANGED <<pollingInterval, intervals>>
                 /\ pollingInterval \in DOMAIN intervals
                 /\ notice' = notice \/ (p.awaitedBy # "none" /\ notice' = "Sync completed!")]_vars
    /\ (LoopIdleAfterFailure ~> (hidden \/ Requests(polls) > 0))

\* polls have failed until the delay reached its maximum: the timer is armed,
\* no Notice has ever been shown, and a new request is in flight
C20_Witness ==
    /\ retryDelay = maxRetryDelay
    /\ pollLog = "failed: request"
    /\ pollingInterval \in DOMAIN intervals
    /\ notice = "none"
    /\ Requests(polls) = 1

(* ------------------------ persistence and subscribers ------------------ *)
\* what updateQuotaPanel hands the quota panel
PanelOf(s) ==
    [quotaUsed |-> s.quotaUsed, quotaLimit |-> s.quotaLimit,
     importsThisMonth |-> s.importsThisMonth]

\* the ribbon badge and the quota panel show the settings after this step
Notified == badge' = settings'.importsThisMonth /\ panel' = PanelOf(settings')

\* the poll p goes on in this step, to its next note or to saveSettings
GoesOn(p) ==
    \E q \in BagToSet(polls') :
        /\ q.pc \in {"note", "save"}
        /\ polls' = BagAdd(BagRemove(polls, p), q)

C21_OneIntervalArmed ==
    /\ Cardinality(DOMAIN intervals) <= 1
    /\ DOMAIN intervals = (IF pollingInterval = 0 THEN {} ELSE {pollingInterval})

\* the first-run modal was completed after teardown had reset the handle:
\* startPolling has armed a timer again, and it is the only one
C21_Witness ==
    /\ phase = "unloaded"
    /\ pollingInterval # 0
    /\ Cardinality(DOMAIN intervals) = 1

(* --------------------------- colliding file names ---------------------- *)
\* C22: notes whose titles sanitize to the same file name share one file, and
\* the note materialized last owns its content.  A note imported onto a path
\* that holds the body of another note replaces that body with its own,
\* adds no file, and is counted in importsThisMonth like any other note;
\* and a file's content changes only in such a step, to the body of the note
\* being materialized.
C22_LastNoteWins ==
    [][/\ \A p \in BagToSet(polls) :
             (/\ Materializes(p)
              /\ notice' = "Imported"
              /\ files[NotePath(p)] \notin {NoFile, Head(p.notes).markdown}) =>
                 /\ files'[NotePath(p)] = Head(p.notes).markdown
                 /\ Existing(files') = Existing(files)
                 /\ settings'.importsThisMonth = settings.importsThisMonth + 1
       /\ \A f \in DOMAIN files :
             files'[f] # files[f] =>
                 \E p \in BagToSet(polls) :
                     /\ Materializes(p)
                     /\ NotePath(p) = f
                     /\ files'[f] = Head(p.notes).markdown
                     /\ settings'.importsThisMonth = settings.importsThisMonth + 1]_vars

\* one batch held Note1 and then Note2, whose titles "a:b" and "a?b" both
\* sanitize to "a_b": both were written, the one file holds Note2's body, and
\* the counter went from 0 to 2
C22_Witness ==
    /\ Note1.id # Note2.id
    /\ Existing(files) = {sanitizedTitle(Note1.title)}
    /\ files[sanitizedTitle(Note1.title)] = Note2.markdown
    /\ settings.importsThisMonth = 2
    /\ \E p \in BagToSet(polls) :
          /\ p.pc = "save" /\ p.importsBefore = 0
          /\ p.materialized = 2 /\ p.failedNotes = 0
          /\ p.latestMaterialized = Note1.created_iso

====
